---- MODULE Spec2Model ----
(***************************************************************************)
(* rpipe.py: pipe a byte stream into / out of an rclone destination as a   *)
(* sequence of fixed-size chunk objects plus a checksum manifest.          *)
(*                                                                         *)
(* Strings are sequences of character codes, so that Python's sorted(),    *)
(* split() and string formatting are computed and not assumed.  A file     *)
(* system (the temporary directory, the remote) is a function from file    *)
(* name to content.  An rclone process handle of the code (a Popen object  *)
(* or None) is one of "None", "running", "ok", "failed": the last three    *)
(* are a live handle whose process runs, has exited 0, has exited non-0.   *)
(***************************************************************************)
EXTENDS Integers, Sequences, FiniteSets, TLC

\* ------------------------------------------------------------------ bounds
MaxLen == 3
MaxChunk == 2
MaxBlock == 2
MaxJobs == 2
MaxLines == 2
MaxWidth == 2
MaxIndex == 30

\* rpipe never looks at the value of a byte: two values are enough to have
\* chunks that differ and chunks that are equal
Bytes == {1, 2}

\* --------------------------------------------------------------- constants
Width == 6

\* ----------------------------------------------------------------- strings
RP == <<114, 112, 45>>
PAR == <<112, 97, 114, 45>>
DOTPAR2 == <<46, 112, 97, 114, 50>>
DOT1 == <<46, 49>>
TOTAL == <<84, 79, 84, 65, 76>>
RPIPEMD5 == <<114, 112, 105, 112, 101, 46, 109, 100, 53>>
ascii_lowercase == [i \in 1..26 |-> 96 + i]

Min(a, b) == IF a < b THEN a ELSE b

HasPrefix(s, p) == Len(s) >= Len(p) /\ SubSeq(s, 1, Len(p)) = p

\* a < b as Python compares two str objects
RECURSIVE StrLess(_, _)
StrLess(a, b) ==
    IF b = <<>> THEN FALSE
    ELSE IF a = <<>> THEN TRUE
    ELSE IF Head(a) # Head(b) THEN Head(a) < Head(b)
    ELSE StrLess(Tail(a), Tail(b))

\* ------------------------------------------------------------------ mkname
RECURSIVE mknameLoopWrap(_, _, _)
mknameLoopWrap(n, p, s) ==
    IF n = 0 \/ p < 1 THEN [raised |-> FALSE, val |-> s]
    ELSE mknameLoopWrap(n \div 26, p - 1,
                        [s EXCEPT ![p] = ascii_lowercase[(n % 26) + 1]])

\* the while loop of mkname: p counts down from width (1-based here)
RECURSIVE mknameLoop(_, _, _)
mknameLoop(n, p, s) ==
    IF n = 0 THEN [raised |-> FALSE, val |-> s]
    ELSE IF p < 1 THEN [raised |-> TRUE, val |-> <<>>]
    ELSE mknameLoop(n \div 26, p - 1,
                    [s EXCEPT ![p] = ascii_lowercase[(n % 26) + 1]])

mknameDescending(n, width, prefix) ==
    LET r == mknameLoop(n, width, [i \in 1..width |-> ascii_lowercase[1]])
    IN  [raised |-> r.raised,
         val |-> prefix \o [i \in 1..Len(r.val) |-> 219 - r.val[i]]]

mkname(n, width, prefix) ==
    LET r == mknameLoop(n, width, [i \in 1..width |-> ascii_lowercase[1]])
    IN  [raised |-> r.raised, val |-> prefix \o r.val]

\* "par-{}.par2".format(chunk_id)
ParName(chunk_id) == PAR \o chunk_id \o DOTPAR2

\* --------------------------------------------------------------------- md5
\* hashlib.md5 as a collision-free digest of the bytes fed so far: no byte is
\* 0, so the base-3 numeral of a string over Bytes is unique to it.
md5new == 0

RECURSIVE md5update(_, _)
md5update(h, d) ==
    IF d = <<>> THEN h
    ELSE md5update(h * (Cardinality(Bytes) + 1) + Head(d), Tail(d))

\* -------------------------------------------------------------- file system
EmptyDir == [f \in {} |-> <<>>]

WriteFile(dir, f, content) == (f :> content) @@ dir

unlink(dir, f) == [g \in (DOMAIN dir) \ {f} |-> dir[g]]

\* ------------------------------------------------------------------- readin
\* min(blk, tot): the size readin asks stdin for
readSizeBlock(blk, tot) == blk

readSize(blk, tot) == Min(blk, tot)

\* ----------------------------------------------------------------- complete
completeBlocksForever(fl, m) == fl[m + 1].sp # "None"

completeNoWait(fl, m) == FALSE

\* complete(flist, m): wait() blocks while the process runs
completeBlocks(fl, m) == fl[m + 1].sp = "running"

completeFlist(fl, m) ==
    IF fl[m + 1].sp # "None" THEN [fl EXCEPT ![m + 1].sp = "None"] ELSE fl

completeDirKeep(fl, dir, m) == dir

completeDir(fl, dir, m) ==
    IF fl[m + 1].sp # "None" THEN unlink(dir, fl[m + 1].f) ELSE dir

\* the unlink() complete makes, as deposit's history keeps it: the file, the
\* state of its upload process when wait() returned, and whether it was there
completeUnlinks(fl, dir, u, m) ==
    IF fl[m + 1].sp # "None"
    THEN Append(u, [f |-> fl[m + 1].f, sp |-> fl[m + 1].sp,
                    had |-> fl[m + 1].f \in DOMAIN dir])
    ELSE u

\* n - args.jobs: the chunk the window slides past before chunk n is sent
oldestLate(n_, jobs) == n_ - jobs - 1

oldest(n_, jobs) == n_ - jobs

\* if n == 0: the chunk whose upload deposit waits for right after starting it
firstChunkNone(n_) == FALSE

firstChunk(n_) == n_ = 0

\* range(len(flist)): the chunks deposit waits for after the last one is read
drainNone(fl) == 0

drainCount(fl) == Len(fl)

\* ------------------------------------------------------------------- state
VARIABLES
    args,        \* the parsed command line
    run,         \* 1: first invocation, 2: a later invocation on the same remote
    pc,          \* position of the main thread
    exc,         \* the exception in flight: [type, msg]
    ret,         \* the exit status, once pc = "exited"
    input,       \* everything the first invocation is given on stdin
    stdin,       \* what is left to read of it
    stdout,      \* the bytes replay has written
    warnings,    \* the warnings replay has printed
    tempdir,     \* args.tempdir: file name -> content
    remote,      \* args.destination: object name -> content
    flist, n, b, tot, csum, totsum, totsize, x, final,   \* deposit, readin
    remote_sums, buf, chunk_num,                        \* check_pipe
    md, keys, k, tsum, tsize,                           \* replay
    sent,        \* history: every upload() of a chunk, <<name, bytes>>
    failed,      \* history: names of the chunks whose upload exited non-0
    manifests,   \* history: number of upload() calls for rpipe.md5
    repaired,    \* history: names check_pipe repaired with par2 returning 0
    unlinks,     \* history: every unlink() of a chunk file by deposit
    checks,      \* history: number of times check_pipe has returned buf
    named        \* the calls of mkname under test: arguments and outcome

mainVars == <<args, run, pc, exc, ret>>
ioVars == <<input, stdin, stdout, warnings>>
depositVars == <<flist, n, b, tot, csum, totsum, totsize, x, final>>
checkVars == <<remote_sums, buf, chunk_num>>
replayVars == <<md, keys, k, tsum, tsize>>
historyVars == <<sent, failed, manifests, repaired, unlinks, checks>>
vars == <<mainVars, ioVars, tempdir, remote, depositVars, checkVars,
          replayVars, historyVars, named>>

NoExc == [type |-> "None", msg |-> ""]

Raise(type, msg) ==
    /\ exc' = [type |-> type, msg |-> msg]
    /\ pc' = "raise"

Inputs == UNION {[1..len -> Bytes] : len \in 0..MaxLen}

\* the locals of the three handlers before any of them has run
Locals ==
    /\ flist = <<>> /\ n = 0 /\ b = 1 /\ tot = 0 /\ csum = md5new
    /\ totsum = md5new /\ totsize = 0 /\ x = 0 /\ final = "None"
    /\ remote_sums = EmptyDir /\ buf = <<>> /\ chunk_num = 0
    /\ md = EmptyDir /\ keys = <<>> /\ k = 0 /\ tsum = md5new /\ tsize = 0
    /\ stdout = <<>> /\ warnings = <<>>
    /\ sent = <<>> /\ failed = {} /\ manifests = 0 /\ repaired = {}
    /\ unlinks = <<>> /\ checks = 0
    /\ pc = "main" /\ exc = NoExc /\ ret = 0 /\ tempdir = EmptyDir

\* mkname alone: three calls with one width and one prefix, the first two at
\* any index up to MaxIndex or next to a power of 26, the third at 26^width or
\* just past it
RECURSIVE Pow26(_)
Pow26(e) == IF e = 0 THEN 1 ELSE 26 * Pow26(e - 1)

NameWidths == (1..MaxWidth) \cup {Width}
NameIndices(w) == (0..MaxIndex) \cup {Pow26(e) + d : e \in 1..w, d \in {-1, 0, 1}}
Pending(i, w, p) ==
    [n |-> i, width |-> w, prefix |-> p, done |-> FALSE, raised |-> FALSE,
     val |-> <<>>]

InitName ==
    /\ Locals
    /\ run = 1
    /\ args = [chunksize |-> 1, blocksize |-> 1, jobs |-> 1, replay |-> FALSE,
               verify |-> FALSE, nocheck |-> FALSE, parchive |-> FALSE,
               repair |-> FALSE]
    /\ input = <<>>
    /\ stdin = input
    /\ remote = EmptyDir
    /\ \E w \in NameWidths, p \in {<<>>, RP} :
         \E i \in NameIndices(w), j \in NameIndices(w), d \in {0, 1} :
           named = <<Pending(i, w, p), Pending(j, w, p),
                     Pending(Pow26(w) + d, w, p)>>

\* one call of mkname(n, width, prefix): it returns a name or raises
CallMkname ==
    \E c \in 1..Len(named) :
      /\ ~named[c].done
      /\ LET r == mkname(named[c].n, named[c].width, named[c].prefix)
         IN  named' = [named EXCEPT ![c].done = TRUE, ![c].raised = r.raised,
                                    ![c].val = IF r.raised THEN <<>> ELSE r.val]
      /\ UNCHANGED <<mainVars, ioVars, tempdir, remote, depositVars, checkVars,
                     replayVars, historyVars>>

\* a send into a destination that does not exist yet (the usage rpipe asks for)
InitSend ==
    /\ Locals
    /\ run = 1
    /\ args \in [chunksize : 1..MaxChunk, blocksize : 1..MaxBlock,
                 jobs : 1..MaxJobs, replay : {FALSE}, verify : {FALSE},
                 nocheck : BOOLEAN, parchive : BOOLEAN, repair : {FALSE}]
    /\ input \in Inputs
    /\ stdin = input
    /\ remote = EmptyDir
    /\ named = <<>>

\* --replay or --verify of a destination in any condition: up to MaxLines rows
\* in rpipe.md5 (blank, of one token, or a digest and a name), the chunks
\* rp-aaaaaa and rp-aaaaab each absent or with one of two contents, and the
\* parity file of rp-aaaaaa (made when the chunk was <<1>>) listed or not
ChunkA == RP \o mkname(0, Width, <<>>).val
ChunkB == RP \o mkname(1, Width, <<>>).val
Contents == {<<1>>, <<2, 1>>}
Digests == {md5update(md5new, c) : c \in Contents}
Rows == {<<>>} \cup {<<h>> : h \in Digests}
             \cup {<<h, f>> : h \in Digests, f \in {ChunkA, ChunkB, TOTAL}}
Ledgers == UNION {[1..len -> Rows] : len \in 0..MaxLines}
Maybe(f, S) == {EmptyDir} \cup {f :> c : c \in S}

InitRemote ==
    /\ Locals
    /\ run = 1
    /\ \E verify \in BOOLEAN :
         args \in [chunksize : {1}, blocksize : 1..MaxBlock, jobs : {1},
                   replay : {~verify}, verify : {verify},
                   nocheck : BOOLEAN, parchive : {FALSE}, repair : BOOLEAN]
    /\ input = <<>>
    /\ stdin = input
    /\ named = <<>>
    /\ \E a \in Maybe(ChunkA, Contents), bb \in Maybe(ChunkB, Contents),
          p \in Maybe(ParName(mkname(0, Width, <<>>).val), {<<1>>}),
          m \in Maybe(RPIPEMD5, Ledgers) :
         remote = a @@ bb @@ p @@ m

\* ------------------------------------------------------------------ deposit
\* deposit: rclone mkdir, and the initial values of the locals
Mkdir ==
    /\ pc = "deposit"
    /\ \E ok \in BOOLEAN :
         IF ok
         THEN /\ pc' = "while" /\ exc' = exc
              /\ n' = 0 /\ flist' = <<>> /\ b' = 1
              /\ totsum' = md5new /\ totsize' = 0
         ELSE /\ Raise("CalledProcessError", "rclone mkdir")
              /\ UNCHANGED <<n, flist, b, totsum, totsize>>
    /\ UNCHANGED <<named, args, run, ret, ioVars, tempdir, remote, tot, csum, x, final,
                   checkVars, replayVars, historyVars>>

\* while b > 0: mkname, flist.append, and readin up to its open()
OpenChunk ==
    /\ pc = "while" /\ b > 0
    /\ LET chunk_id == mkname(n, Width, <<>>)
           f == RP \o chunk_id.val
       IN  IF chunk_id.raised
           THEN /\ Raise("Exception", "")
                /\ UNCHANGED <<flist, csum, tot, tempdir>>
           ELSE /\ flist' = Append(flist, [f |-> f, csum |-> <<>>, sp |-> "None"])
                /\ csum' = md5new
                /\ tot' = args.chunksize
                /\ tempdir' = WriteFile(tempdir, f, <<>>)
                /\ pc' = "readin" /\ exc' = exc
    /\ UNCHANGED <<named, args, run, ret, ioVars, remote, n, b, totsum, totsize, x,
                   final, checkVars, replayVars, historyVars>>

\* one pass of the while loop of readin; its last pass also flushes, closes
\* and returns maxlen - tot into b
ReadBlock ==
    /\ pc = "readin" /\ tot # 0
    /\ LET f == flist[Len(flist)].f
           want == readSize(args.blocksize, tot)
           d == SubSeq(stdin, 1, Min(want, Len(stdin)))
           left == tot - Len(d)
       IN  IF Len(d) > 0
           THEN /\ csum' = md5update(csum, d)
                /\ totsum' = md5update(totsum, d)
                /\ tempdir' = WriteFile(tempdir, f, tempdir[f] \o d)
                /\ stdin' = SubSeq(stdin, Len(d) + 1, Len(stdin))
                /\ tot' = left
                /\ IF left = 0
                   THEN pc' = "slide" /\ b' = args.chunksize - left
                   ELSE pc' = "readin" /\ b' = b
           ELSE /\ pc' = "slide" /\ b' = args.chunksize - tot
                /\ UNCHANGED <<csum, totsum, tempdir, stdin, tot>>
    /\ UNCHANGED <<named, args, run, exc, ret, input, stdout, warnings, remote, flist,
                   n, totsize, x, final, checkVars, replayVars, historyVars>>

\* if n >= args.jobs: complete(flist, n - args.jobs)
Slide ==
    /\ pc = "slide"
    /\ IF oldest(n, args.jobs) >= 0
       THEN /\ ~completeBlocks(flist, oldest(n, args.jobs))
            /\ flist' = completeFlist(flist, oldest(n, args.jobs))
            /\ tempdir' = completeDir(flist, tempdir, oldest(n, args.jobs))
            /\ unlinks' = completeUnlinks(flist, tempdir, unlinks,
                                          oldest(n, args.jobs))
       ELSE UNCHANGED <<flist, tempdir, unlinks>>
    /\ pc' = IF b > 0 THEN "seal" ELSE "discard"
    /\ UNCHANGED <<named, args, run, exc, ret, ioVars, remote, n, b, tot, csum,
                   totsum, totsize, x, final, checkVars, replayVars, sent,
                   failed, manifests, repaired, checks>>

\* if b: the digest, the parity archive when asked for, and upload() of the chunk.
\* par2 create either leaves its index and one volume file, whose upload is
\* waited for, or leaves nothing, and then unlink of the index raises.
StartUpload ==
    /\ pc = "seal"
    /\ LET f == flist[Len(flist)].f
           chunk_id == mkname(n, Width, <<>>).val
       IN  \E created \in BOOLEAN :
             /\ IF args.parchive THEN TRUE ELSE created
             /\ totsize' = totsize + b
             /\ IF args.parchive /\ ~created
                THEN /\ flist' = [flist EXCEPT ![n + 1].csum = <<csum>>]
                     /\ Raise("OSError", "unlink")
                     /\ UNCHANGED <<remote, n, sent>>
                ELSE /\ flist' = [flist EXCEPT ![n + 1].csum = <<csum>>,
                                               ![n + 1].sp = "running"]
                     /\ remote' = IF args.parchive
                                  THEN WriteFile(remote, ParName(chunk_id), tempdir[f])
                                  ELSE remote
                     /\ sent' = Append(sent, <<f, tempdir[f]>>)
                     /\ IF firstChunk(n)
                        THEN pc' = "first" /\ n' = n
                        ELSE pc' = "while" /\ n' = n + 1
                     /\ exc' = exc
    /\ UNCHANGED <<named, args, run, ret, ioVars, tempdir, b, tot, csum, totsum, x,
                   final, checkVars, replayVars, failed, manifests, repaired,
                   unlinks, checks>>

\* if n == 0: complete(flist, n); then n += 1
FirstWait ==
    /\ pc = "first"
    /\ ~completeBlocks(flist, n)
    /\ flist' = completeFlist(flist, n)
    /\ tempdir' = completeDir(flist, tempdir, n)
    /\ unlinks' = completeUnlinks(flist, tempdir, unlinks, n)
    /\ n' = n + 1
    /\ pc' = "while"
    /\ UNCHANGED <<named, args, run, exc, ret, ioVars, remote, b, tot, csum,
                   totsum, totsize, x, final, checkVars, replayVars, sent,
                   failed, manifests, repaired, checks>>

\* else: unlink(flist[-1][0]); b is 0, so the while loop ends
Discard ==
    /\ pc = "discard"
    /\ tempdir' = unlink(tempdir, flist[Len(flist)].f)
    /\ unlinks' = Append(unlinks, [f |-> flist[Len(flist)].f,
                                   sp |-> flist[Len(flist)].sp,
                                   had |-> flist[Len(flist)].f \in DOMAIN tempdir])
    /\ x' = 0
    /\ pc' = "drain"
    /\ UNCHANGED <<named, args, run, exc, ret, ioVars, remote, flist, n, b, tot,
                   csum, totsum, totsize, final, checkVars, replayVars, sent,
                   failed, manifests, repaired, checks>>

\* for x in range(len(flist)): complete(flist, x)
Drain ==
    /\ pc = "drain" /\ x < drainCount(flist)
    /\ ~completeBlocks(flist, x)
    /\ flist' = completeFlist(flist, x)
    /\ tempdir' = completeDir(flist, tempdir, x)
    /\ unlinks' = completeUnlinks(flist, tempdir, unlinks, x)
    /\ x' = x + 1
    /\ UNCHANGED <<named, mainVars, ioVars, remote, n, b, tot, csum, totsum,
                   totsize, final, checkVars, replayVars, sent, failed,
                   manifests, repaired, checks>>

\* the lines of rpipe.md5, each as the tokens split() gives back
RECURSIVE ManifestLines(_)
ManifestLines(fl) ==
    IF fl = <<>> THEN <<>>
    ELSE (IF Head(fl).csum # <<>>
          THEN << <<Head(fl).csum[1], Head(fl).f>> >>
          ELSE <<>>) \o ManifestLines(Tail(fl))

\* write rpipe.md5 in tempdir and start its upload
WriteManifest ==
    /\ pc = "drain" /\ x >= drainCount(flist)
    /\ tempdir' = WriteFile(tempdir, RPIPEMD5,
                            Append(ManifestLines(flist), <<totsum, TOTAL>>))
    /\ final' = "running"
    /\ manifests' = manifests + 1
    /\ pc' = "final"
    /\ UNCHANGED <<named, args, run, exc, ret, ioVars, remote, flist, n, b, tot, csum,
                   totsum, totsize, x, checkVars, replayVars, sent, failed,
                   repaired, unlinks, checks>>

\* final.wait(); unlink(mdpath); check_pipe unless --nocheck
FinalWait ==
    /\ pc = "final" /\ final # "running"
    /\ tempdir' = unlink(tempdir, RPIPEMD5)
    /\ pc' = IF args.nocheck THEN "return" ELSE "check_pipe"
    /\ UNCHANGED <<named, args, run, exc, ret, ioVars, remote, depositVars, checkVars,
                   replayVars, historyVars>>

\* an rclone copyto of chunk i exits: 0 after copying the file, or non-0
UploadExit ==
    \E i \in 1..Len(flist), ok \in BOOLEAN :
      /\ flist[i].sp = "running"
      /\ flist' = [flist EXCEPT ![i].sp = IF ok THEN "ok" ELSE "failed"]
      /\ remote' = IF ok THEN WriteFile(remote, flist[i].f, sent[i][2])
                   ELSE remote
      /\ failed' = IF ok THEN failed ELSE failed \cup {flist[i].f}
      /\ UNCHANGED <<named, mainVars, ioVars, tempdir, n, b, tot, csum, totsum, totsize,
                     x, final, checkVars, replayVars, sent, manifests, repaired,
                     unlinks, checks>>

\* the rclone copyto of rpipe.md5 exits
FinalExit ==
    \E ok \in BOOLEAN :
      /\ final = "running"
      /\ final' = IF ok THEN "ok" ELSE "failed"
      /\ remote' = IF ok THEN WriteFile(remote, RPIPEMD5, tempdir[RPIPEMD5])
                   ELSE remote
      /\ UNCHANGED <<named, mainVars, ioVars, tempdir, flist, n, b, tot, csum, totsum,
                     totsize, x, checkVars, replayVars, historyVars>>

\* --------------------------------------------------------------- check_pipe
\* s.split('-')
RECURSIVE SplitDash(_, _)
SplitDash(s, cur) ==
    IF s = <<>> THEN <<cur>>
    ELSE IF Head(s) = 45 THEN <<cur>> \o SplitDash(Tail(s), <<>>)
    ELSE SplitDash(Tail(s), Append(cur, Head(s)))

\* the digest rclone md5sum reports for an object
RemoteMd5(content) == md5update(md5new, content)

\* rclone cat of rpipe.md5 into a StringIO: nothing when the object is absent
CatManifest(rem) == IF RPIPEMD5 \in DOMAIN rem THEN rem[RPIPEMD5] ELSE <<>>

\* rclone md5sum --include=rp-* into remote_sums, rclone cat rpipe.md5 into buf
CheckPipeStart ==
    /\ pc = "check_pipe"
    /\ \E ok \in BOOLEAN :
         IF ok
         THEN /\ remote_sums' = [o \in {f \in DOMAIN remote : HasPrefix(f, RP)}
                                   |-> RemoteMd5(remote[o])]
              /\ buf' = CatManifest(remote)
              /\ chunk_num' = 0
              /\ pc' = "check_for" /\ exc' = exc
         ELSE /\ Raise("CalledProcessError", "rclone md5sum")
              /\ UNCHANGED checkVars
    /\ UNCHANGED <<named, args, run, ret, ioVars, tempdir, remote, depositVars,
                   replayVars, historyVars>>

NoParMsg == "Checksums do not match, use --nocheck to allow the data to be piped anyway"
HopeMsg == "ERROR: Checksum failed HOPE: parity file found, run again with --repair to try and repair"
RepairMsg == "Couldn't repair remote data, use --nocheck to allow the data to be piped anyway."

RowVerdictSkipMissing(d, sums, files, repair) ==
    IF Len(d) < 2 THEN [do |-> "next", msg |-> ""]
    ELSE IF d[2] = TOTAL THEN [do |-> "next", msg |-> ""]
    ELSE IF d[2] \notin DOMAIN sums THEN [do |-> "next", msg |-> ""]
    ELSE IF sums[d[2]] = d[1] THEN [do |-> "next", msg |-> ""]
    ELSE IF ParName(SplitDash(d[2], <<>>)[2]) \in files
         THEN IF repair THEN [do |-> "repair", msg |-> ""]
              ELSE [do |-> "raise", msg |-> HopeMsg]
         ELSE [do |-> "raise", msg |-> NoParMsg]

RowVerdictRepairUnasked(d, sums, files, repair) ==
    IF Len(d) < 2 THEN [do |-> "next", msg |-> ""]
    ELSE IF d[2] = TOTAL THEN [do |-> "next", msg |-> ""]
    ELSE IF d[2] \notin DOMAIN sums THEN [do |-> "raise", msg |-> ""]
    ELSE IF sums[d[2]] = d[1] THEN [do |-> "next", msg |-> ""]
    ELSE IF ParName(SplitDash(d[2], <<>>)[2]) \in files
         THEN [do |-> "repair", msg |-> ""]
         ELSE [do |-> "raise", msg |-> NoParMsg]

RowVerdictWrongId(d, sums, files, repair) ==
    IF Len(d) < 2 THEN [do |-> "next", msg |-> ""]
    ELSE IF d[2] = TOTAL THEN [do |-> "next", msg |-> ""]
    ELSE IF d[2] \notin DOMAIN sums THEN [do |-> "raise", msg |-> ""]
    ELSE IF sums[d[2]] = d[1] THEN [do |-> "next", msg |-> ""]
    ELSE IF ParName(SplitDash(d[2], <<>>)[1]) \in files
         THEN IF repair THEN [do |-> "repair", msg |-> ""]
              ELSE [do |-> "raise", msg |-> HopeMsg]
         ELSE [do |-> "raise", msg |-> NoParMsg]

\* what one row of rpipe.md5 makes check_pipe do
\*   "next": go on with the next row;  "raise": raise ChecksumError(msg);
\*   "repair": download the parity file and the chunk and run par2 repair
RowVerdict(d, sums, files, repair) ==
    IF Len(d) < 2 THEN [do |-> "next", msg |-> ""]
    ELSE IF d[2] = TOTAL THEN [do |-> "next", msg |-> ""]
    ELSE IF d[2] \notin DOMAIN sums THEN [do |-> "raise", msg |-> ""]
    ELSE IF sums[d[2]] = d[1] THEN [do |-> "next", msg |-> ""]
    ELSE IF ParName(SplitDash(d[2], <<>>)[2]) \in files
         THEN IF repair THEN [do |-> "repair", msg |-> ""]
              ELSE [do |-> "raise", msg |-> HopeMsg]
         ELSE [do |-> "raise", msg |-> NoParMsg]

\* one pass of the for loop over the rows of rpipe.md5
CheckRow ==
    /\ pc = "check_for" /\ chunk_num < Len(buf)
    /\ LET d == buf[chunk_num + 1]
           v == RowVerdict(d, remote_sums, DOMAIN remote, args.repair)
       IN  CASE v.do = "next" ->
                  /\ chunk_num' = chunk_num + 1
                  /\ UNCHANGED <<pc, exc, tempdir, remote, repaired>>
             [] v.do = "raise" ->
                  /\ Raise("ChecksumError", v.msg)
                  /\ UNCHANGED <<chunk_num, tempdir, remote, repaired>>
             [] v.do = "repair" ->
                  LET par_name == ParName(SplitDash(d[2], <<>>)[2])
                      par_tmp == par_name
                      rp_tmp == d[2]
                      \* rclone copy of the parity file and of the chunk
                      got == WriteFile(WriteFile(tempdir, par_tmp, remote[par_name]),
                                       rp_tmp, remote[d[2]])
                      intact == got[rp_tmp] = got[par_tmp]
                      \* par2 repair returning 0: it rewrote the chunk and kept
                      \* the damaged file as <chunk>.1, unless nothing was damaged
                      fixed == IF intact THEN got
                               ELSE WriteFile(WriteFile(got, rp_tmp, got[par_tmp]),
                                              rp_tmp \o DOT1, got[rp_tmp])
                  IN  \E r \in {0, 1} :
                        /\ IF intact THEN r = 0 ELSE TRUE
                        /\ IF r = 0
                           THEN /\ remote' = WriteFile(remote, d[2], fixed[rp_tmp])
                                /\ repaired' = repaired \cup {d[2]}
                                /\ IF intact
                                   THEN /\ tempdir' = unlink(unlink(fixed, par_tmp), rp_tmp)
                                        /\ Raise("OSError", "unlink")
                                        /\ UNCHANGED chunk_num
                                   ELSE /\ tempdir' = unlink(unlink(unlink(fixed, par_tmp),
                                                                   rp_tmp), rp_tmp \o DOT1)
                                        /\ chunk_num' = chunk_num + 1
                                        /\ UNCHANGED <<pc, exc>>
                           ELSE /\ tempdir' = got
                                /\ Raise("ChecksumError", RepairMsg)
                                /\ UNCHANGED <<chunk_num, remote, repaired>>
    /\ UNCHANGED <<named, args, run, ret, ioVars, depositVars, remote_sums, buf,
                   replayVars, sent, failed, manifests, unlinks, checks>>

\* return buf: back in main (--verify), in replay, or at the end of deposit
CheckPipeReturn ==
    /\ pc = "check_for" /\ chunk_num = Len(buf)
    /\ pc' = IF args.verify THEN "return"
             ELSE IF args.replay THEN "replay_md" ELSE "return"
    /\ checks' = checks + 1
    /\ UNCHANGED <<named, args, run, exc, ret, ioVars, tempdir, remote,
                   depositVars, checkVars, replayVars, sent, failed, manifests,
                   repaired, unlinks>>

\* ------------------------------------------------------------------- replay
\* if not args.nocheck: replay calls check_pipe before anything else
needCheckNever(a) == FALSE

needCheck(a) == ~a.nocheck

\* check_pipe unless --nocheck, and then only rclone cat of rpipe.md5
ReplayStart ==
    /\ pc = "replay"
    /\ IF needCheck(args)
       THEN /\ buf' = buf
            /\ pc' = "check_pipe"
       ELSE /\ buf' = CatManifest(remote)
            /\ pc' = "replay_md"
    /\ UNCHANGED <<named, args, run, exc, ret, ioVars, tempdir, remote, depositVars,
                   remote_sums, chunk_num, replayVars, historyVars>>

\* for l in buf: d = l.split(); skip when empty; md[d[1]] = d[0]
RECURSIVE LedgerMap(_, _)
LedgerMap(lines, m) ==
    IF lines = <<>> THEN [raised |-> FALSE, val |-> m]
    ELSE LET d == Head(lines)
         IN  IF Len(d) = 0 THEN LedgerMap(Tail(lines), m)
             ELSE IF Len(d) < 2 THEN [raised |-> TRUE, val |-> m]
             ELSE LedgerMap(Tail(lines), WriteFile(m, d[2], d[1]))

RECURSIVE sortedDescending(_)
sortedDescending(names) ==
    IF names = {} THEN <<>>
    ELSE LET hi == CHOOSE f \in names : \A g \in names \ {f} : StrLess(g, f)
         IN  <<hi>> \o sortedDescending(names \ {hi})

\* sorted(names)
RECURSIVE sorted(_)
sorted(names) ==
    IF names = {} THEN <<>>
    ELSE LET lo == CHOOSE f \in names : \A g \in names \ {f} : StrLess(f, g)
         IN  <<lo>> \o sorted(names \ {lo})

\* the mapping of file name to checksum, and the locals of the fetch loop
ReplayLedger ==
    /\ pc = "replay_md"
    /\ LET m == LedgerMap(buf, EmptyDir)
       IN  IF m.raised
           THEN /\ Raise("IndexError", "list index out of range")
                /\ UNCHANGED replayVars
           ELSE /\ md' = m.val
                /\ keys' = sorted(DOMAIN m.val)
                /\ k' = 0 /\ tsum' = md5new /\ tsize' = 0
                /\ pc' = "replay_for" /\ exc' = exc
    /\ UNCHANGED <<named, args, run, ret, ioVars, tempdir, remote, depositVars,
                   checkVars, historyVars>>

\* rclone cat of one object read blocksize bytes at a time
RECURSIVE catLoop(_, _, _)
catLoop(data, bs, acc) ==
    IF data = <<>> THEN acc
    ELSE LET d == SubSeq(data, 1, Min(bs, Len(data)))
         IN  catLoop(SubSeq(data, Len(d) + 1, Len(data)), bs,
                     [tsize |-> acc.tsize + Len(d),
                      csum |-> md5update(acc.csum, d),
                      tsum |-> md5update(acc.tsum, d),
                      out |-> acc.out \o d])

ChunkWarning == "WARNING: Checksum mis-match!!"
TotalWarning == "WARNING: Full stream checksum mis-match!!"

\* one pass of for f in sorted(md.keys())
ReplayChunk ==
    /\ pc = "replay_for" /\ k < Len(keys)
    /\ LET f == keys[k + 1]
           data == IF f \in DOMAIN remote THEN remote[f] ELSE <<>>
           got == catLoop(data, args.blocksize,
                          [tsize |-> tsize, csum |-> md5new, tsum |-> tsum,
                           out |-> stdout])
       IN  IF f = TOTAL
           THEN UNCHANGED <<tsum, tsize, stdout, warnings>>
           ELSE /\ tsum' = got.tsum
                /\ tsize' = got.tsize
                /\ stdout' = got.out
                /\ warnings' = IF got.csum # md[f]
                               THEN Append(warnings, [msg |-> ChunkWarning, f |-> f])
                               ELSE warnings
    /\ k' = k + 1
    /\ UNCHANGED <<named, mainVars, input, stdin, tempdir, remote, depositVars,
                   checkVars, md, keys, historyVars>>

\* after the loop: the full stream checksum against md['TOTAL']
ReplayEnd ==
    /\ pc = "replay_for" /\ k = Len(keys)
    /\ IF TOTAL \notin DOMAIN md
       THEN /\ Raise("KeyError", "TOTAL")
            /\ UNCHANGED warnings
       ELSE /\ warnings' = IF tsum # md[TOTAL]
                           THEN Append(warnings, [msg |-> TotalWarning, f |-> TOTAL])
                           ELSE warnings
            /\ pc' = "return" /\ exc' = exc
    /\ UNCHANGED <<named, args, run, ret, input, stdin, stdout, tempdir, remote,
                   depositVars, checkVars, replayVars, historyVars>>

\* --------------------------------------------------------------------- main
\* if args.verify: check_pipe; elif args.replay: replay; else: deposit
MainDispatch ==
    /\ pc = "main"
    /\ pc' = IF args.verify THEN "check_pipe"
             ELSE IF args.replay THEN "replay" ELSE "deposit"
    /\ UNCHANGED <<named, args, run, exc, ret, ioVars, tempdir, remote, depositVars,
                   checkVars, replayVars, historyVars>>

\* except ChecksumError: ret = 1; finally: rmtree(args.tempdir); exit(ret)
ExitStatus(e) == IF e.type = "ChecksumError" THEN 1 ELSE 0

MainExit ==
    /\ pc \in {"return", "raise"}
    /\ ret' = ExitStatus(exc)
    /\ tempdir' = EmptyDir
    /\ pc' = "exited"
    /\ UNCHANGED <<named, args, run, exc, ioVars, remote, depositVars, checkVars,
                   replayVars, historyVars>>

\* rpipe.py --replay on the destination of a send that returned without an
\* exception, once none of its rclone processes is left
Invoke ==
    /\ pc = "exited" /\ run = 1 /\ ~args.replay /\ ~args.verify
    /\ exc = NoExc
    /\ \A i \in 1..Len(flist) : flist[i].sp # "running"
    /\ final # "running"
    /\ run' = 2
    /\ \E nocheck \in BOOLEAN :
         args' = [args EXCEPT !.replay = TRUE, !.nocheck = nocheck]
    /\ pc' = "main" /\ ret' = 0
    /\ UNCHANGED <<named, exc, ioVars, tempdir, remote, depositVars, checkVars,
                   replayVars, historyVars>>

Next ==
    \/ MainDispatch \/ MainExit \/ Invoke
    \/ Mkdir \/ OpenChunk \/ ReadBlock \/ Slide \/ StartUpload \/ FirstWait
    \/ Discard \/ Drain \/ WriteManifest \/ FinalWait \/ UploadExit \/ FinalExit
    \/ CheckPipeStart \/ CheckRow \/ CheckPipeReturn
    \/ ReplayStart \/ ReplayLedger \/ ReplayChunk \/ ReplayEnd

Spec == InitSend /\ [][Next]_vars

\* the send alone
NextSend ==
    \/ MainDispatch \/ MainExit
    \/ Mkdir \/ OpenChunk \/ ReadBlock \/ Slide \/ StartUpload \/ FirstWait
    \/ Discard \/ Drain \/ WriteManifest \/ FinalWait \/ UploadExit \/ FinalExit
    \/ CheckPipeStart \/ CheckRow \/ CheckPipeReturn

SpecSend == InitSend /\ [][NextSend]_vars

\* the send alone, when the program is not stopped from outside, every rclone
\* copyto of a chunk exits and the rclone copyto of rpipe.md5 exits
SpecSendFair ==
    /\ InitSend /\ [][NextSend]_vars
    /\ WF_vars(NextSend) /\ WF_vars(UploadExit) /\ WF_vars(FinalExit)

\* --verify and --replay alone
NextRemote ==
    \/ MainDispatch \/ MainExit
    \/ CheckPipeStart \/ CheckRow \/ CheckPipeReturn
    \/ ReplayStart \/ ReplayLedger \/ ReplayChunk \/ ReplayEnd

SpecRemote == InitRemote /\ [][NextRemote]_vars

\* mkname alone
NextName == CallMkname

SpecName == InitName /\ [][NextName]_vars

\* ================================================================== claims
RECURSIVE Concat(_)
Concat(ss) == IF ss = <<>> THEN <<>> ELSE Head(ss)[2] \o Concat(Tail(ss))

Running == {i \in 1..Len(flist) : flist[i].sp = "running"}
ChunkFiles == {f \in DOMAIN tempdir : HasPrefix(f, RP)}
Ceil(a, c) == (a + c - 1) \div c

\* every chunk upload and the upload of rpipe.md5 exited 0
CleanSend == failed = {} /\ final = "ok"

\* C1: after a send whose uploads all succeeded, a replay with the checks on
\* that gets its checksums from rclone ends without an exception, with exit
\* status 0, with exactly the bytes of the input on stdout and no warning; the
\* chunks sent, named in ascending order, concatenate to the input, and the
\* digest replay accumulates is the TOTAL entry, the digest of the send.
C1_RoundTrip ==
    (run = 2 /\ pc = "exited" /\ ~args.nocheck /\ CleanSend
        /\ exc.type # "CalledProcessError")
    => /\ exc = NoExc /\ ret = 0
       /\ stdout = input
       /\ warnings = <<>>
       /\ Concat(sent) = input
       /\ \A i \in 1..Len(sent) - 1 : StrLess(sent[i][1], sent[i + 1][1])
       /\ TOTAL \in DOMAIN md /\ tsum = md[TOTAL] /\ tsum = totsum

C1_Witness ==
    /\ run = 2 /\ pc = "exited" /\ ~args.nocheck /\ CleanSend /\ exc = NoExc
    /\ Len(input) = MaxLen /\ Len(sent) >= 2
    /\ input[1] # input[2]
    /\ stdout = input

\* C2: at most args.jobs chunk uploads run at any moment of a send, and a
\* chunk's upload is started only once every chunk args.jobs or more before it
\* has been waited for.
C2_Window ==
    /\ Cardinality(Running) <= args.jobs
    /\ \A i \in 1..Len(flist), j \in 1..Len(flist) :
         (flist[i].sp # "None" /\ j <= i - args.jobs) => flist[j].sp = "None"

C2_Witness ==
    /\ args.jobs = MaxJobs
    /\ Cardinality(Running) = args.jobs
    /\ pc = "readin"

\* C3: the temporary directory never holds more than args.jobs + 1 chunk files.
C3_ScratchBound == Cardinality(ChunkFiles) <= args.jobs + 1

C3_Witness ==
    /\ args.jobs = MaxJobs
    /\ Cardinality(ChunkFiles) = args.jobs + 1
    /\ Cardinality(Running) = args.jobs

\* C4: once the upload of a chunk has exited non-0, rpipe.md5 is never uploaded.
C4_NoManifestAfterFailure ==
    failed # {} => (manifests = 0 /\ RPIPEMD5 \notin DOMAIN remote)

\* C5: rpipe.md5 is uploaded at most once, once by every send that gets to its
\* end, and from the start of that upload on no chunk upload is running or
\* still to be waited for.
C5_ManifestOnce ==
    /\ manifests <= 1
    /\ final # "None" => (manifests = 1 /\ \A i \in 1..Len(flist) : flist[i].sp = "None")
    /\ (run = 1 /\ (pc = "return" \/ (pc = "exited" /\ exc = NoExc))) => manifests = 1

C5_Witness ==
    /\ final = "running"
    /\ Len(sent) >= 2
    /\ failed = {}

\* the while loop of deposit has ended
LoopDone == run = 1 /\ pc \in {"drain", "final", "check_pipe", "check_for", "return"}

\* C10: when the loop of a send of S bytes in chunks of C ends, ceil(S / C)
\* chunks have been uploaded, all of C bytes but the last, which has S mod C
\* bytes (C when that is 0); the one file after them is empty, has no digest,
\* was never uploaded and is not a row of rpipe.md5.
C10_ChunkCount ==
    LoopDone =>
      LET S == Len(input)
          C == args.chunksize
          N == Len(sent)
          rows == ManifestLines(flist)
      IN  /\ N = Ceil(S, C)
          /\ \A i \in 1..N - 1 : Len(sent[i][2]) = C
          /\ N > 0 => Len(sent[N][2]) = (IF S % C = 0 THEN C ELSE S % C)
          /\ Len(flist) = N + 1
          /\ flist[N + 1].csum = <<>> /\ flist[N + 1].sp = "None"
          /\ flist[N + 1].f \notin DOMAIN remote
          /\ Len(rows) = N
          /\ \A i \in 1..N : rows[i][2] = sent[i][1] /\ rows[i][2] = flist[i].f

C10_Witness ==
    /\ LoopDone
    /\ Len(input) = 3 /\ args.chunksize = 2
    /\ Len(sent) = 2 /\ Len(sent[2][2]) = 1

\* the rows of rpipe.md5 check_pipe has gone past
RowPassed(d) ==
    \/ Len(d) < 2
    \/ d[2] = TOTAL
    \/ /\ d[2] \in DOMAIN remote_sums
       /\ d[2] \in DOMAIN remote
       /\ remote_sums[d[2]] = d[1] \/ d[2] \in repaired

\* check_pipe has returned buf
CheckReturned ==
    \/ pc = "check_for" /\ chunk_num = Len(buf)
    \/ args.verify /\ (pc = "return" \/ (pc = "exited" /\ exc = NoExc))
    \/ args.replay /\ ~args.nocheck /\ pc \in {"replay_md", "replay_for", "return"}

\* C6: check_pipe gets past a row, and returns, only if every row before names
\* TOTAL, has fewer than two tokens, or names an object rclone md5sum listed
\* whose digest is the row's or which par2 repaired returning 0.
C6_VerifiedOnly ==
    /\ pc = "check_for" => \A i \in 1..chunk_num : RowPassed(buf[i])
    /\ CheckReturned => \A i \in 1..Len(buf) : RowPassed(buf[i])

C6_Witness ==
    /\ args.verify /\ pc = "return"
    /\ Len(buf) = 2 /\ Len(buf[1]) = 2 /\ Len(buf[2]) = 2
    /\ buf[1][2] = ChunkA /\ ChunkA \in repaired
    /\ buf[2][2] = ChunkB /\ ChunkB \notin repaired

\* C7: rpipe.py --verify exits 0 exactly when check_pipe returned, and 1
\* whenever an exception ended it.
C7_VerifyExitStatus ==
    (args.verify /\ pc = "exited") =>
        /\ exc = NoExc => ret = 0
        /\ exc # NoExc => ret = 1

\* the row check_pipe is at names a listed object with another digest
AtMismatch ==
    /\ pc = "check_for" /\ chunk_num < Len(buf)
    /\ Len(buf[chunk_num + 1]) = 2
    /\ buf[chunk_num + 1][2] # TOTAL
    /\ buf[chunk_num + 1][2] \in DOMAIN remote_sums
    /\ remote_sums[buf[chunk_num + 1][2]] # buf[chunk_num + 1][1]

\* "par-xxxxxx.par2" of chunk "rp-xxxxxx"
ParOf(f) == PAR \o SubSeq(f, Len(RP) + 1, Len(f)) \o DOTPAR2

\* C8: at a row whose digest differs from the listed one, check_pipe raises
\* ChecksumError with the no-parity message when the chunk's parity file is not
\* on the remote, with or without --repair, and with the other, different,
\* message when it is there and --repair is not given.
C8_MismatchOutcome ==
    [][AtMismatch =>
        /\ NoParMsg # HopeMsg
        /\ ParOf(buf[chunk_num + 1][2]) \notin DOMAIN remote
             => (pc' = "raise" /\ exc' = [type |-> "ChecksumError", msg |-> NoParMsg])
        /\ (ParOf(buf[chunk_num + 1][2]) \in DOMAIN remote /\ ~args.repair)
             => (pc' = "raise" /\ exc' = [type |-> "ChecksumError", msg |-> HopeMsg])
      ]_vars

C8_Witness ==
    /\ pc = "raise" /\ exc.msg = NoParMsg /\ args.repair
    /\ chunk_num = 1 /\ Len(buf) = 2 /\ Len(buf[2]) = 2 /\ buf[2][2] = ChunkA
    /\ ParOf(ChunkB) \notin DOMAIN remote

\* what rclone cat gives for an object
Cat(f) == IF f \in DOMAIN remote THEN remote[f] ELSE <<>>

\* the objects named in the rows of two tokens, by ascending name
Expected ==
    (IF ChunkA \in DOMAIN md THEN Cat(ChunkA) ELSE <<>>)
        \o (IF ChunkB \in DOMAIN md THEN Cat(ChunkB) ELSE <<>>)

IsPrefix(a, c) == Len(a) <= Len(c) /\ SubSeq(c, 1, Len(a)) = a

\* C9: once replay has its mapping, it writes the objects the mapping names,
\* each once and by ascending name, whatever their digests: while it loops
\* stdout is a prefix of that and no exception is raised, and the loop ends only
\* with all of it written, also when the TOTAL key is missing after it.
C9_ReplayEmitsAll ==
    /\ pc = "replay_for" => (IsPrefix(stdout, Expected) /\ exc = NoExc)
    /\ (pc = "replay_for" /\ k = Len(keys)) => stdout = Expected
    /\ (args.replay /\ pc = "return") => stdout = Expected
    /\ (args.replay /\ pc \in {"raise", "exited"} /\ exc.type = "KeyError")
         => (stdout = Expected /\ TOTAL \notin DOMAIN md)
    /\ (args.replay /\ pc = "exited" /\ exc = NoExc) => stdout = Expected

C9_Witness ==
    /\ args.replay /\ pc = "return"
    /\ stdout # <<>>
    /\ Len(warnings) = 2
    /\ warnings[1].msg = ChunkWarning /\ warnings[2].msg = TotalWarning

\* C11: mkname(i, width, prefix) returns a name for every 0 <= i < 26^width
\* and raises, returning nothing, for every i >= 26^width; the names it returns
\* for one width and prefix all have the length of the prefix plus width, and
\* for i < j the name of i is lexicographically below the name of j.
C11_Monotonic ==
    \A a \in 1..Len(named), c \in 1..Len(named) :
      (named[a].done /\ named[c].done) =>
        LET cap == Pow26(named[a].width)
        IN  /\ named[a].raised <=> named[a].n >= cap
            /\ named[a].raised => named[a].val = <<>>
            /\ ~named[a].raised =>
                  Len(named[a].val) = Len(named[a].prefix) + named[a].width
            /\ (named[a].n < named[c].n /\ named[c].n < cap) =>
                  /\ Len(named[a].val) = Len(named[c].val)
                  /\ StrLess(named[a].val, named[c].val)

C11_Witness ==
    /\ Len(named) = 3
    /\ \A c \in 1..3 : named[c].done
    /\ named[1].width = 2 /\ named[1].prefix = RP
    /\ named[1].n = 25 /\ named[2].n = 26
    /\ StrLess(named[1].val, named[2].val)
    /\ named[3].n = Pow26(2) /\ named[3].raised

\* the files a repair puts in the temporary directory: the parity file, the
\* chunk, and the chunk par2 set aside as <chunk>.1
RepairScratch == {f \in DOMAIN tempdir : HasPrefix(f, RP) \/ HasPrefix(f, PAR)}

\* C12: after a repair check_pipe attempted, whether par2 returned 0 or not,
\* the temporary directory holds no copy of the parity file, none of the chunk
\* and no <chunk>.1 (verification and replay put nothing else there).
C12_ScratchRemoved == RepairScratch = {}

\* C13: in a send with --jobs 2 the temporary directory never holds more than
\* two chunk files.
C13_TwoChunkFiles == args.jobs = 2 => Cardinality(ChunkFiles) <= 2

\* the row check_pipe is at is a mismatch with its parity file listed and
\* --repair given
AtRepair ==
    /\ AtMismatch
    /\ ParOf(buf[chunk_num + 1][2]) \in DOMAIN remote
    /\ args.repair

\* C14: at such a row, either par2 returns 0, and then the repaired chunk is
\* copied to the remote under the chunk's name, remote_sums is left as it was
\* and check_pipe goes on with the next row without raising; or par2 returns
\* non-0, and then check_pipe raises ChecksumError with the repair message and
\* the remote is left as it was.
C14_RepairOutcome ==
    [][AtRepair =>
         LET f == buf[chunk_num + 1][2]
         IN  \/ /\ f \in repaired'
                /\ remote' = [remote EXCEPT ![f] = remote[ParOf(f)]]
                /\ remote_sums' = remote_sums
                /\ chunk_num' = chunk_num + 1
                /\ pc' = "check_for" /\ exc' = NoExc
             \/ /\ f \notin repaired'
                /\ pc' = "raise"
                /\ exc' = [type |-> "ChecksumError", msg |-> RepairMsg]
                /\ remote' = remote
      ]_vars

\* C15: in a send, whatever --jobs is, by the time the upload of a second
\* chunk has been started the upload of the first chunk has exited (its chunk
\* is on the remote, or it exited non-0) and has been waited for.
C15_FirstChunkBarrier ==
    Len(sent) >= 2 =>
      /\ flist[1].sp = "None"
      /\ sent[1][1] \in DOMAIN remote \/ sent[1][1] \in failed

C15_Witness ==
    /\ args.jobs = MaxJobs
    /\ Len(sent) = 2
    /\ flist[2].sp = "running"
    /\ sent[1][1] \in DOMAIN remote

\* the rows of rpipe.md5 that have two tokens
TwoTokenNames == {buf[i][2] : i \in {j \in 1..Len(buf) : Len(buf[j]) = 2}}

\* C16: a row of rpipe.md5 with fewer than two tokens is passed over wherever
\* the ledger is read: check_pipe never raises at such a row, and replay builds
\* its mapping from the rows of two tokens alone, without an IndexError.
C16_ShortLinesSkipped ==
    /\ (pc = "raise" /\ exc.type = "ChecksumError")
         => Len(buf[chunk_num + 1]) = 2
    /\ exc.type # "IndexError"
    /\ (args.replay /\ pc \in {"replay_for", "return"})
         => DOMAIN md = TwoTokenNames

\* every chunk sent has been waited for and its file deleted, no chunk file is
\* left, and the upload of rpipe.md5 has been started and has exited
Retired ==
    /\ \A i \in 1..Len(flist) : flist[i].sp = "None"
    /\ \A i \in 1..Len(sent) :
         \E u \in 1..Len(unlinks) :
           unlinks[u].f = sent[i][1] /\ unlinks[u].sp \in {"ok", "failed"}
    /\ ChunkFiles = {}
    /\ Concat(sent) = input
    /\ manifests = 1 /\ final \in {"ok", "failed"}

AbortedEarly == exc # NoExc /\ manifests = 0

C18_UnlinkAfterWait ==
    /\ \A u \in 1..Len(unlinks) :
         /\ unlinks[u].had
         /\ unlinks[u].sp \in {"ok", "failed", "None"}
         /\ unlinks[u].sp # "None" =>
               \E i \in 1..Len(sent) : sent[i][1] = unlinks[u].f
         /\ unlinks[u].sp = "None" =>
               /\ unlinks[u].f = flist[Len(flist)].f
               /\ flist[Len(flist)].csum = <<>>
         /\ \A v \in 1..Len(unlinks) : unlinks[u].f = unlinks[v].f => u = v
    /\ \A i \in 1..Len(flist) :
         /\ flist[i].csum = <<>> => flist[i].sp = "None"
         /\ (flist[i].sp = "running" /\ pc # "exited")
               => flist[i].f \in DOMAIN tempdir
    /\ LoopDone =>
         Cardinality({u \in 1..Len(unlinks) :
                        unlinks[u].f = flist[Len(flist)].f}) = 1

C18_Witness ==
    /\ pc = "final"
    /\ args.jobs = MaxJobs
    /\ Len(unlinks) = MaxLen + 1
    /\ unlinks[1].sp = "ok" /\ unlinks[2].sp = "failed"
    /\ unlinks[3].sp = "None"

C20_RemoteFrame ==
    [][/\ remote' # remote =>
            /\ AtRepair
            /\ buf[chunk_num + 1][2] \in repaired'
            /\ DOMAIN remote' = DOMAIN remote
            /\ \A g \in DOMAIN remote :
                 g # buf[chunk_num + 1][2] => remote'[g] = remote[g]
       /\ ~args.repair => remote' = remote
      ]_vars

C20_Witness ==
    /\ args.verify /\ args.repair
    /\ pc = "check_for" /\ chunk_num = 1 /\ Len(buf) = 2
    /\ Len(buf[1]) = 2 /\ buf[1][2] = ChunkA
    /\ ChunkA \in repaired
    /\ remote_sums[ChunkA] # RemoteMd5(remote[ChunkA])

====
